---- MODULE Spec2Model ----
(***************************************************************************)
(* A model of log_parser.py: the WorkLog class, its four lazily cached     *)
(* properties (minutes_per_day_by_project, weekly_hours_by_project,        *)
(* pay_period_hours_by_project, flex_time), the period key helpers and the *)
(* three report operations (display_summary, output_csv_basic,             *)
(* output_csv_detailed).                                                   *)
(*                                                                         *)
(* Representation.                                                         *)
(*   - A datetime.date is its proleptic Gregorian ordinal (date.toordinal), *)
(*     and the calendar fields are computed from it the way CPython's      *)
(*     datetime does.  A date string 'dd/mm/YYYY' is the triple <<d,m,y>>. *)
(*   - A Python dict is a function; a missing key is a value outside its   *)
(*     DOMAIN.  A log entry is such a dict over the keys it carries.       *)
(*   - None is <<>> and a value v held by a cache field is <<v>>.          *)
(*   - Hours are exact rationals, held as a whole number of 1/UnitsPerHour *)
(*     of an hour.  Binary floating point rounding is not modelled.        *)
(***************************************************************************)
EXTENDS Integers, Sequences, FiniteSets, TLC

VARIABLES
    logs,                          \* self.logs
    config,                        \* self.config
    project_codes,                 \* self.project_codes
    payperiod_config,              \* self.payperiod_config
    vacation_config,               \* self.vacation_config
    today,                         \* datetime.date.today(), fixed for a run
    _minutes_per_day_by_project,   \* cache fields of WorkLog
    _weekly_hours_by_project,
    _pay_period_hours_by_project,
    _flex_time,
    result                         \* what the last operation returned or printed

inputs == <<logs, config, project_codes, payperiod_config, vacation_config, today>>
caches == <<_minutes_per_day_by_project, _weekly_hours_by_project,
            _pay_period_hours_by_project, _flex_time>>
vars == <<logs, config, project_codes, payperiod_config, vacation_config, today,
          _minutes_per_day_by_project, _weekly_hours_by_project,
          _pay_period_hours_by_project, _flex_time, result>>

-----------------------------------------------------------------------------
(* Python values *)

None == <<>>
Some(v) == <<v>>
IsNone(c) == c = <<>>
ValueOf(c) == c[1]

\* dict.get(k, default)
Get(d, k, default) == IF k \in DOMAIN d THEN d[k] ELSE default

\* d[k] = v
DictSet(d, k, v) == [x \in (DOMAIN d) \cup {k} |-> IF x = k THEN v ELSE d[x]]

EmptyDict == <<>>

\* x / 60 for a number of minutes x, as a number of 1/UnitsPerHour hours
UnitsPerHour == 300
DivBy60(mins) == (mins * UnitsPerHour) \div 60

\* sum(d.values())
RECURSIVE SumValues(_)
SumValues(d) ==
    IF DOMAIN d = {} THEN 0
    ELSE LET k == CHOOSE x \in DOMAIN d : TRUE
         IN  d[k] + SumValues([x \in (DOMAIN d) \ {k} |-> d[x]])

-----------------------------------------------------------------------------
(* datetime.date, as CPython computes it *)

is_leap(y) == y % 4 = 0 /\ (y % 100 # 0 \/ y % 400 = 0)

days_before_year(y) ==
    LET p == y - 1 IN p * 365 + (p \div 4) - (p \div 100) + (p \div 400)

days_in_month(y, m) ==
    IF m = 2 THEN (IF is_leap(y) THEN 29 ELSE 28)
    ELSE IF m \in {4, 6, 9, 11} THEN 30 ELSE 31

RECURSIVE days_before_month(_, _)
days_before_month(y, m) ==
    IF m = 1 THEN 0 ELSE days_before_month(y, m - 1) + days_in_month(y, m - 1)

\* date(y, m, d).toordinal()
ymd2ord(y, m, d) == days_before_year(y) + days_before_month(y, m) + d

\* date.year
Year(ord) ==
    LET n0   == ord - 1
        n400 == n0 \div 146097
        r400 == n0 % 146097
        n100 == r400 \div 36524
        r100 == r400 % 36524
        n4   == r100 \div 1461
        r4   == r100 % 1461
        n1   == r4 \div 365
        y    == n400 * 400 + 1 + n100 * 100 + n4 * 4 + n1
    IN  IF n1 = 4 \/ n100 = 4 THEN y - 1 ELSE y

\* date.month
Month(ord) ==
    LET y == Year(ord)
        n == ord - days_before_year(y)
    IN  CHOOSE m \in 1..12 :
            days_before_month(y, m) < n /\ n <= days_before_month(y, m) + days_in_month(y, m)

\* date.day
Day(ord) == ord - days_before_year(Year(ord)) - days_before_month(Year(ord), Month(ord))

\* date.weekday(): Monday is 0
weekday(ord) == (ord + 6) % 7

isoweek1monday(y) ==
    LET firstday     == ymd2ord(y, 1, 1)
        firstweekday == (firstday + 6) % 7
        week1monday  == firstday - firstweekday
    IN  IF firstweekday > 3 THEN week1monday + 7 ELSE week1monday

\* date.isocalendar() as <<ISO year, ISO week>>; \div and % floor as divmod does
isocalendar(ord) ==
    LET y    == Year(ord)
        week == (ord - isoweek1monday(y)) \div 7
    IN  IF week < 0
        THEN <<y - 1, ((ord - isoweek1monday(y - 1)) \div 7) + 1>>
        ELSE IF week >= 52 /\ ord >= isoweek1monday(y + 1)
             THEN <<y + 1, 1>>
             ELSE <<y, week + 1>>

\* datetime.datetime.strptime(s, '%d/%m/%Y').date() for a well-formed s = <<d, m, y>>
strptime(s) == ymd2ord(s[3], s[2], s[1])

\* the 'dd/mm/YYYY' text of a date
DateText(ord) == <<Day(ord), Month(ord), Year(ord)>>

-----------------------------------------------------------------------------
(* WorkLog: the cached properties, computed from the fields they read *)

\* log.get('project') or "Unassigned": a missing key and '' both give "Unassigned"
ProjectOf(log) ==
    IF "project" \notin DOMAIN log THEN "Unassigned"
    ELSE IF log.project = "" THEN "Unassigned" ELSE log.project

\* log.get('end', 0) - log.get('start', 0)
DurationOf(log) == Get(log, "end", 0) - Get(log, "start", 0)

\* the same assignment with = in place of +=
AccumulateOverwrite(data, key, project, amount) ==
    DictSet(data, key, DictSet(Get(data, key, EmptyDict), project, amount))

\* data[date][project] = data[date].get(project, 0) + duration
Accumulate(data, key, project, amount) ==
    LET inner == Get(data, key, EmptyDict)
    IN  DictSet(data, key, DictSet(inner, project, Get(inner, project, 0) + amount))

\* the loop of minutes_per_day_by_project over self.logs[i..]
RECURSIVE MinutesLoop(_, _, _)
MinutesLoop(ls, i, data) ==
    IF i > Len(ls) THEN data
    ELSE MinutesLoop(ls, i + 1,
             Accumulate(data, strptime(ls[i].date), ProjectOf(ls[i]), DurationOf(ls[i])))

ComputeMinutes(ls) == MinutesLoop(ls, 1, EmptyDict)

\* for project, mins in projects.items(): data[key][project] = ... + (mins / 60)
RECURSIVE AddProjects(_, _, _, _)
AddProjects(data, key, projects, todo) ==
    IF todo = {} THEN data
    ELSE LET p == CHOOSE x \in todo : TRUE
         IN  AddProjects(Accumulate(data, key, p, DivBy60(projects[p])),
                         key, projects, todo \ {p})

\* key = (date.year, date.isocalendar().week)
WeekKey(date) == <<Year(date), isocalendar(date)[2]>>

\* the loop of weekly_hours_by_project over the items of the minutes dict
RECURSIVE WeeklyLoop(_, _, _)
WeeklyLoop(minutes, todo, data) ==
    IF todo = {} THEN data
    ELSE LET date == CHOOSE d \in todo : \A e \in todo : d <= e
             key  == WeekKey(date)
             d1   == IF key \in DOMAIN data THEN data ELSE DictSet(data, key, EmptyDict)
         IN  WeeklyLoop(minutes, todo \ {date},
                        AddProjects(d1, key, minutes[date], DOMAIN minutes[date]))

ComputeWeekly(minutes) == WeeklyLoop(minutes, DOMAIN minutes, EmptyDict)

\* str.lower() on the period type names that occur
Lower(s) ==
    CASE s = "Monthly"  -> "monthly"
      [] s = "Biweekly" -> "biweekly"
      [] OTHER          -> s

\* _get_payperiod_type_and_start: <<payperiod_type, start_date>>
get_payperiod_type_and_start(ppc) ==
    LET payperiod_type == Lower(Get(ppc, "type", "biweekly"))
        start_date     == IF "start" \in DOMAIN ppc THEN strptime(ppc.start)
                          ELSE ymd2ord(2024, 1, 22)
    IN  <<payperiod_type, start_date>>

\* a // b of Python for b > 0: the floor
FloorDiv(a, b) == a \div b

\* a division that truncates toward zero instead
TruncDiv(a, b) == IF a >= 0 THEN a \div b ELSE -((-a) \div b)

get_payperiod_key_trunc(date, payperiod_type, period_start) ==
    IF payperiod_type = "monthly" THEN <<Year(date), Month(date)>>
    ELSE period_start + TruncDiv(date - period_start, 14) * 14

\* _get_payperiod_key
get_payperiod_key(date, payperiod_type, period_start) ==
    IF payperiod_type = "monthly" THEN <<Year(date), Month(date)>>
    ELSE LET day_delta    == date - period_start
             period_delta == FloorDiv(day_delta, 14)
         IN  period_start + period_delta * 14

\* the loop of pay_period_hours_by_project
RECURSIVE PayPeriodLoop(_, _, _, _)
PayPeriodLoop(minutes, todo, ts, data) ==
    IF todo = {} THEN data
    ELSE LET date == CHOOSE d \in todo : \A e \in todo : d <= e
             key  == get_payperiod_key(date, ts[1], ts[2])
             d1   == IF key \in DOMAIN data THEN data ELSE DictSet(data, key, EmptyDict)
         IN  PayPeriodLoop(minutes, todo \ {date}, ts,
                           AddProjects(d1, key, minutes[date], DOMAIN minutes[date]))

ComputePayPeriod(minutes, ppc) ==
    PayPeriodLoop(minutes, DOMAIN minutes, get_payperiod_type_and_start(ppc), EmptyDict)

\* sum(sum(p.values()) for p in minutes.values())
RECURSIVE SumAllMinutes(_, _)
SumAllMinutes(minutes, todo) ==
    IF todo = {} THEN 0
    ELSE LET d == CHOOSE x \in todo : TRUE
         IN  SumValues(minutes[d]) + SumAllMinutes(minutes, todo \ {d})

\* holidays.country_holidays(region): the public holidays of the one region the
\* inputs name, "R": New Year's Day and Christmas Day
CountryHolidays(region, date) ==
    /\ region = "R"
    /\ \/ Month(date) = 1 /\ Day(date) = 1
       \/ Month(date) = 12 /\ Day(date) = 25

\* current_day not in regional_holidays, with regional_holidays = {} for no region
InRegionalHolidays(cfg, date) ==
    /\ "holiday_region" \in DOMAIN cfg
    /\ cfg.holiday_region # ""
    /\ CountryHolidays(cfg.holiday_region, date)

\* any(start <= current_day <= end for start, end in vacation_periods)
IsOnVacation(vac, date) ==
    \E i \in 1..Len(vac) : strptime(vac[i].start) <= date /\ date <= strptime(vac[i].end)

\* the same loop under while current_day < last_day
RECURSIVE SweepExpectedExclusive(_, _, _, _, _, _)
SweepExpectedExclusive(current_day, last_day, hours_per_week, cfg, vac, expected_hours) ==
    IF current_day >= last_day THEN expected_hours
    ELSE SweepExpectedExclusive(current_day + 1, last_day, hours_per_week, cfg, vac,
             IF /\ weekday(current_day) < 5
                /\ ~InRegionalHolidays(cfg, current_day)
                /\ ~IsOnVacation(vac, current_day)
             THEN expected_hours + (hours_per_week \div 5)
             ELSE expected_hours)

\* the while loop of flex_time from current_day to last_day
RECURSIVE SweepExpected(_, _, _, _, _, _)
SweepExpected(current_day, last_day, hours_per_week, cfg, vac, expected_hours) ==
    IF current_day > last_day THEN expected_hours
    ELSE SweepExpected(current_day + 1, last_day, hours_per_week, cfg, vac,
             IF /\ weekday(current_day) < 5
                /\ ~InRegionalHolidays(cfg, current_day)
                /\ ~IsOnVacation(vac, current_day)
             THEN expected_hours + (hours_per_week \div 5)
             ELSE expected_hours)

\* min(minutes.keys())
MinKey(minutes) == CHOOSE d \in DOMAIN minutes : \A e \in DOMAIN minutes : d <= e

\* hours_per_week defaults to 37.5
DefaultHoursPerWeek == (375 * UnitsPerHour) \div 10

ExpectedHours(minutes, cfg, vac, last_day) ==
    SweepExpected(MinKey(minutes), last_day,
                  Get(cfg, "hours_per_week", DefaultHoursPerWeek), cfg, vac, 0)

\* the same with the operands of the subtraction exchanged
ComputeFlexTimeSwapped(minutes, cfg, vac, last_day) ==
    LET total_logged_hours == DivBy60(SumAllMinutes(minutes, DOMAIN minutes))
    IN  IF DOMAIN minutes = {} THEN 0
        ELSE ExpectedHours(minutes, cfg, vac, last_day) - total_logged_hours

ComputeFlexTime(minutes, cfg, vac, last_day) ==
    LET total_logged_hours == DivBy60(SumAllMinutes(minutes, DOMAIN minutes))
    IN  IF DOMAIN minutes = {} THEN 0
        ELSE total_logged_hours - ExpectedHours(minutes, cfg, vac, last_day)

-----------------------------------------------------------------------------
(* WorkLog: what an access to each cached property leaves in the cache fields *)

\* self.minutes_per_day_by_project, given the field before the access
MinutesField(before) ==
    IF IsNone(before) THEN Some(ComputeMinutes(logs)) ELSE before

\* self.weekly_hours_by_project; it reads self.minutes_per_day_by_project
WeeklyField(before, minutesField) ==
    IF IsNone(before) THEN Some(ComputeWeekly(ValueOf(minutesField))) ELSE before

\* self.pay_period_hours_by_project
PayPeriodField(before, minutesField) ==
    IF IsNone(before)
    THEN Some(ComputePayPeriod(ValueOf(minutesField), payperiod_config))
    ELSE before

\* self.flex_time
FlexField(before, minutesField) ==
    IF IsNone(before)
    THEN Some(ComputeFlexTime(ValueOf(minutesField), config, vacation_config, today))
    ELSE before

-----------------------------------------------------------------------------
(* Report helpers *)

\* f"{hours:.2f}": the nearest number of hundredths (no value m/60 is a tie)
Fmt2(hours) == (200 * hours + UnitsPerHour) \div (2 * UnitsPerHour)

\* sorted() of the project names that occur in the inputs
SortedNames == <<"A", "Unassigned", "X">>
Sorted(S) == SelectSeq(SortedNames, LAMBDA n : n \in S)

\* self.project_codes.get(code, code)
LabelOf(codes, code) == Get(codes, code, code)

\* the loop of _create_table_row over project_headers[i..]: <<row, total>>
RECURSIVE RowLoop(_, _, _, _, _, _, _)
RowLoop(codes, data_dict, project_headers, is_minutes, i, row, total) ==
    IF i > Len(project_headers) THEN <<row, total>>
    ELSE LET p_header == project_headers[i]
             val      == Get(data_dict, p_header, 0)
             label    == LabelOf(codes, p_header)
             hours    == IF is_minutes THEN DivBy60(val) ELSE val
         IN  RowLoop(codes, data_dict, project_headers, is_minutes, i + 1,
                     DictSet(row, label, Fmt2(hours)), total + hours)

\* _create_table_row
create_table_row(codes, period_name, data_dict, project_headers, is_minutes) ==
    LET rt == RowLoop(codes, data_dict, project_headers, is_minutes, 1,
                      DictSet(EmptyDict, "Period", period_name), 0)
    IN  DictSet(rt[1], "Total", Fmt2(rt[2]))

\* the grand total loop of display_summary over the weekly buckets
RECURSIVE GrandTotal(_, _, _)
GrandTotal(weekly, todo, total_data) ==
    IF todo = {} THEN total_data
    ELSE LET k == CHOOSE x \in todo : TRUE
             add == [p \in (DOMAIN total_data) \cup (DOMAIN weekly[k]) |->
                        Get(total_data, p, 0) + Get(weekly[k], p, 0)]
         IN  GrandTotal(weekly, todo \ {k}, add)

\* the same table with last_week_date = today - timedelta(days=1)
SummaryRowsLastWeekOff(minutes, weekly, payperiod) ==
    LET project_headers == Sorted(UNION {DOMAIN weekly[k] : k \in DOMAIN weekly})
        today_data      == Get(minutes, today, EmptyDict)
        this_week_data  == Get(weekly, WeekKey(today), EmptyDict)
        last_week_data  == Get(weekly, WeekKey(today - 1), EmptyDict)
        ts              == get_payperiod_type_and_start(payperiod_config)
        this_pp_key     == get_payperiod_key(today, ts[1], ts[2])
        this_pp_data    == Get(payperiod, this_pp_key, EmptyDict)
        total_data      == GrandTotal(weekly, DOMAIN weekly, EmptyDict)
    IN  << create_table_row(project_codes, "Today", today_data, project_headers, TRUE),
           create_table_row(project_codes, "This Week", this_week_data, project_headers, FALSE),
           create_table_row(project_codes, "Last Week", last_week_data, project_headers, FALSE),
           create_table_row(project_codes, "This Pay Period", this_pp_data, project_headers, FALSE),
           create_table_row(project_codes, "Grand Total", total_data, project_headers, FALSE) >>

\* the table_rows display_summary builds from the three dicts
SummaryRows(minutes, weekly, payperiod) ==
    LET project_headers == Sorted(UNION {DOMAIN weekly[k] : k \in DOMAIN weekly})
        today_data      == Get(minutes, today, EmptyDict)
        this_week_data  == Get(weekly, WeekKey(today), EmptyDict)
        last_week_data  == Get(weekly, WeekKey(today - 7), EmptyDict)
        ts              == get_payperiod_type_and_start(payperiod_config)
        this_pp_key     == get_payperiod_key(today, ts[1], ts[2])
        this_pp_data    == Get(payperiod, this_pp_key, EmptyDict)
        total_data      == GrandTotal(weekly, DOMAIN weekly, EmptyDict)
    IN  << create_table_row(project_codes, "Today", today_data, project_headers, TRUE),
           create_table_row(project_codes, "This Week", this_week_data, project_headers, FALSE),
           create_table_row(project_codes, "Last Week", last_week_data, project_headers, FALSE),
           create_table_row(project_codes, "This Pay Period", this_pp_data, project_headers, FALSE),
           create_table_row(project_codes, "Grand Total", total_data, project_headers, FALSE) >>

\* a label lookup that files every code missing from project_codes under "Unassigned"
CsvLabelUnassigned(codes, log) ==
    IF "project" \notin DOMAIN log THEN "Unassigned"
    ELSE IF log.project \in DOMAIN codes THEN codes[log.project] ELSE "Unassigned"

\* project_codes.get(project_code, project_code or "Unassigned")
CsvLabel(codes, log) ==
    IF "project" \notin DOMAIN log THEN "Unassigned"
    ELSE IF log.project \in DOMAIN codes THEN codes[log.project]
    ELSE IF log.project = "" THEN "Unassigned" ELSE log.project

\* 'end' in log and 'start' in log
HasTimes(log) == "end" \in DOMAIN log /\ "start" \in DOMAIN log

\* the rows output_csv_basic writes for self.logs[i..], until a row raises:
\* f"{hours:.2f}" with hours = '' is a ValueError
RECURSIVE CsvBasicLoop(_, _, _, _)
CsvBasicLoop(codes, ls, i, rows) ==
    IF i > Len(ls) THEN [rows |-> rows, status |-> "ok"]
    ELSE IF ~HasTimes(ls[i]) THEN [rows |-> rows, status |-> "ValueError"]
    ELSE CsvBasicLoop(codes, ls, i + 1,
             Append(rows, << CsvLabel(codes, ls[i]), ls[i].date,
                             Fmt2(DivBy60(ls[i].end - ls[i].start)) >>))

\* sorted({k for log in self.logs for k in log.keys()}), then 'hours' appended and
\* 'project_label' put first
SortedKeys == <<"date", "end", "project", "start">>
AllKeys(ls) ==
    <<"project_label">>
    \o SelectSeq(SortedKeys, LAMBDA k : \E i \in 1..Len(ls) : k \in DOMAIN ls[i])
    \o <<"hours">>

\* one row of output_csv_detailed
CsvDetailedRow(codes, all_keys, log) ==
    [k \in {all_keys[j] : j \in 1..Len(all_keys)} |->
        IF k = "project_label" THEN CsvLabel(codes, log)
        ELSE IF k = "hours"
             THEN (IF HasTimes(log) THEN DivBy60(log.end - log.start) ELSE "")
             ELSE Get(log, k, "")]

-----------------------------------------------------------------------------
(* Operations *)

\* an access to WorkLog.minutes_per_day_by_project
minutes_per_day_by_project ==
    /\ _minutes_per_day_by_project' = MinutesField(_minutes_per_day_by_project)
    /\ result' = [op |-> "minutes_per_day_by_project",
                  value |-> _minutes_per_day_by_project']
    /\ UNCHANGED <<inputs, _weekly_hours_by_project, _pay_period_hours_by_project,
                   _flex_time>>

\* the same access with its guard testing self._minutes_per_day_by_project
weekly_hours_by_project_wrong_guard ==
    /\ _minutes_per_day_by_project' = MinutesField(_minutes_per_day_by_project)
    /\ _weekly_hours_by_project' =
           IF IsNone(_minutes_per_day_by_project)
           THEN Some(ComputeWeekly(ValueOf(_minutes_per_day_by_project')))
           ELSE _weekly_hours_by_project
    /\ result' = [op |-> "weekly_hours_by_project",
                  value |-> _weekly_hours_by_project']
    /\ UNCHANGED <<inputs, _pay_period_hours_by_project, _flex_time>>

\* an access to WorkLog.weekly_hours_by_project
weekly_hours_by_project ==
    /\ _minutes_per_day_by_project' =
           IF IsNone(_weekly_hours_by_project)
           THEN MinutesField(_minutes_per_day_by_project)
           ELSE _minutes_per_day_by_project
    /\ _weekly_hours_by_project' =
           WeeklyField(_weekly_hours_by_project, _minutes_per_day_by_project')
    /\ result' = [op |-> "weekly_hours_by_project",
                  value |-> _weekly_hours_by_project']
    /\ UNCHANGED <<inputs, _pay_period_hours_by_project, _flex_time>>

\* an access to WorkLog.pay_period_hours_by_project
pay_period_hours_by_project ==
    /\ _minutes_per_day_by_project' =
           IF IsNone(_pay_period_hours_by_project)
           THEN MinutesField(_minutes_per_day_by_project)
           ELSE _minutes_per_day_by_project
    /\ _pay_period_hours_by_project' =
           PayPeriodField(_pay_period_hours_by_project, _minutes_per_day_by_project')
    /\ result' = [op |-> "pay_period_hours_by_project",
                  value |-> _pay_period_hours_by_project']
    /\ UNCHANGED <<inputs, _weekly_hours_by_project, _flex_time>>

\* an access to WorkLog.flex_time
flex_time ==
    /\ _minutes_per_day_by_project' =
           IF IsNone(_flex_time)
           THEN MinutesField(_minutes_per_day_by_project)
           ELSE _minutes_per_day_by_project
    /\ _flex_time' = FlexField(_flex_time, _minutes_per_day_by_project')
    /\ result' = [op |-> "flex_time", value |-> _flex_time']
    /\ UNCHANGED <<inputs, _weekly_hours_by_project, _pay_period_hours_by_project>>

\* WorkLog.display_summary, run by __main__ without a CSV flag
display_summary ==
    /\ _minutes_per_day_by_project' = MinutesField(_minutes_per_day_by_project)
    /\ _weekly_hours_by_project' =
           WeeklyField(_weekly_hours_by_project, _minutes_per_day_by_project')
    /\ _pay_period_hours_by_project' =
           PayPeriodField(_pay_period_hours_by_project, _minutes_per_day_by_project')
    /\ _flex_time' = IF DOMAIN config # {}
                     THEN FlexField(_flex_time, _minutes_per_day_by_project')
                     ELSE _flex_time
    /\ result' = [op     |-> "display_summary",
                  status |-> "ok",
                  rows   |-> SummaryRows(ValueOf(_minutes_per_day_by_project'),
                                         ValueOf(_weekly_hours_by_project'),
                                         ValueOf(_pay_period_hours_by_project')),
                  flex   |-> IF DOMAIN config # {} THEN _flex_time' ELSE None]
    /\ UNCHANGED inputs

\* WorkLog.output_csv_basic, run by __main__ under --csv-basic; a ValueError ends
\* the run in __main__'s handler with the rows written so far on stdout
output_csv_basic ==
    /\ LET r == CsvBasicLoop(project_codes, logs, 1, <<>>)
       IN  result' = [op |-> "output_csv_basic", status |-> r.status, rows |-> r.rows]
    /\ UNCHANGED <<inputs, caches>>

\* WorkLog.output_csv_detailed, run by __main__ under --csv-detailed
output_csv_detailed ==
    /\ result' = [op     |-> "output_csv_detailed",
                  status |-> "ok",
                  fields |-> AllKeys(logs),
                  rows   |-> [i \in 1..Len(logs) |->
                                 CsvDetailedRow(project_codes, AllKeys(logs), logs[i])]]
    /\ UNCHANGED <<inputs, caches>>

-----------------------------------------------------------------------------
(* Inputs.  Every set below holds well-formed documents: parseable dates,  *)
(* numeric start and end, a project that is a string.                      *)

MaxLogs == 2      \* the longest list of log entries
DateSpan == 2     \* logged dates run from 30/12/2024 to DateSpan days later
TodaySpan == 4    \* today runs from 30/12/2024 to TodaySpan days later
KeySpan == 20     \* dates run from KeySpan days before an anchor to KeySpan after

YearEnd == ymd2ord(2024, 12, 30)      \* a Monday, in ISO week 1 of 2025
YearStart == ymd2ord(2024, 1, 1)      \* a Monday, in ISO week 1 of 2024
DefaultAnchor == ymd2ord(2024, 1, 22)
OtherAnchor == ymd2ord(2024, 12, 25)  \* a Wednesday

\* the log entries with a date of D, the project keys of P and the time keys of T
Entries(D, P, T) == {("date" :> DateText(d)) @@ p @@ t : d \in D, p \in P, t \in T}

\* the lists of at most n entries of E
Lists(E, n) == UNION {[1..k -> E] : k \in 0..n}

NoProject == <<>>
ProjectA == [project |-> "A"]
ProjectX == [project |-> "X"]
ProjectEmpty == [project |-> ""]

Worked90 == [start |-> 0, end |-> 90]
Worked1200 == [start |-> 0, end |-> 1200]
WorkedNegative == [start |-> 60, end |-> 30]
NoEnd == [start |-> 60]

NoCodes == <<>>
CodesA == [A |-> "Alpha"]

HoursPerWeek40 == 40 * UnitsPerHour

InitFields ==
    /\ _minutes_per_day_by_project = None
    /\ _weekly_hours_by_project = None
    /\ _pay_period_hours_by_project = None
    /\ _flex_time = None
    /\ result = [op |-> "none"]

\* WorkLog.__init__ on a document drawn from the given sets
InitWith(LogLists, Configs, Codes, PayPeriods, Vacations, Todays) ==
    /\ logs \in LogLists
    /\ config \in Configs
    /\ project_codes \in Codes
    /\ payperiod_config \in PayPeriods
    /\ vacation_config \in Vacations
    /\ today \in Todays
    /\ InitFields

-----------------------------------------------------------------------------
(* Spec: every operation of one WorkLog, in any order and any number of times *)

Init ==
    InitWith(Lists(Entries({YearEnd, YearEnd + 2}, {NoProject, ProjectA}, {Worked90}), MaxLogs),
             {<<>>, [hours_per_week |-> HoursPerWeek40, holiday_region |-> "R"]},
             {CodesA},
             {<<>>, [type |-> "Monthly"]},
             {<<>>, << [start |-> DateText(YearEnd + 1), end |-> DateText(YearEnd + 2)] >>},
             {YearEnd + 2, YearEnd + 7})

Next ==
    \/ minutes_per_day_by_project
    \/ weekly_hours_by_project
    \/ pay_period_hours_by_project
    \/ flex_time
    \/ display_summary
    \/ output_csv_basic
    \/ output_csv_detailed

Spec == Init /\ [][Next]_vars

-----------------------------------------------------------------------------
(* SpecRun: __main__, which builds one WorkLog and runs one report on it *)

InitRun ==
    InitWith(Lists(Entries({YearEnd, YearEnd + 2},
                           {NoProject, ProjectEmpty, ProjectA, ProjectX},
                           {Worked90, NoEnd}), MaxLogs),
             {<<>>, [holiday_region |-> "R"]},
             {NoCodes, CodesA},
             {<<>>, [type |-> "Monthly"],
              [type |-> "weekly", start |-> DateText(OtherAnchor)]},
             {<<>>},
             {YearEnd, YearEnd + 1, YearEnd + 2, YearEnd + 7})

NextRun ==
    \/ result.op = "none" /\ display_summary
    \/ result.op = "none" /\ output_csv_basic
    \/ result.op = "none" /\ output_csv_detailed

SpecRun == InitRun /\ [][NextRun]_vars

-----------------------------------------------------------------------------
(* SpecAgg: the three aggregations over lists of entries around two new years *)

InitAgg ==
    InitWith(Lists(Entries({YearStart} \cup (YearEnd..(YearEnd + DateSpan)),
                           {NoProject, ProjectA},
                           {Worked90, WorkedNegative}), MaxLogs),
             {<<>>},
             {CodesA},
             {<<>>, [type |-> "monthly"], [start |-> DateText(YearEnd + 1)],
              [type |-> "weekly", start |-> DateText(OtherAnchor)]},
             {<<>>},
             {YearEnd})

NextAgg ==
    \/ minutes_per_day_by_project
    \/ weekly_hours_by_project
    \/ pay_period_hours_by_project

SpecAgg == InitAgg /\ [][NextAgg]_vars

-----------------------------------------------------------------------------
(* SpecFlex: flex_time over first logged days, todays, holidays and vacations *)

InitFlex ==
    InitWith(Lists(Entries(YearEnd..(YearEnd + DateSpan), {ProjectA},
                           {Worked90, Worked1200}), MaxLogs),
             {[hours_per_week |-> HoursPerWeek40], [holiday_region |-> "R"],
              [holiday_region |-> ""]},
             {CodesA},
             {<<>>},
             {<<>>,
              << [start |-> DateText(YearEnd + 1), end |-> DateText(YearEnd + 1)] >>,
              << [start |-> DateText(YearEnd - 1), end |-> DateText(YearEnd + 7)] >>,
              << [start |-> DateText(YearEnd), end |-> DateText(YearEnd)],
                 [start |-> DateText(YearEnd + 2), end |-> DateText(YearEnd + 3)] >>},
             YearEnd..(YearEnd + TodaySpan))

NextFlex ==
    \/ minutes_per_day_by_project
    \/ flex_time

SpecFlex == InitFlex /\ [][NextFlex]_vars

-----------------------------------------------------------------------------
(* SpecKey: the pay period of one logged date, before and after the anchor *)

InitKey ==
    InitWith(UNION {Lists(Entries((a - KeySpan)..(a + KeySpan), {ProjectA}, {Worked90}), 1)
                    : a \in {DefaultAnchor, OtherAnchor}} \ {<<>>},
             {<<>>},
             {CodesA},
             {<<>>, [type |-> "Biweekly", start |-> DateText(OtherAnchor)]},
             {<<>>},
             {YearEnd})

NextKey ==
    \/ pay_period_hours_by_project
    \/ display_summary

SpecKey == InitKey /\ [][NextKey]_vars

-----------------------------------------------------------------------------
(* Properties *)

\* the dates of the log entries
LoggedDates == {strptime(logs[i].date) : i \in 1..Len(logs)}

\* the project names the log entries are filed under
LoggedProjects == {ProjectOf(logs[i]) : i \in 1..Len(logs)}

\* the sum of a two-level dict's values for one project
RECURSIVE ProjectSum(_, _, _)
ProjectSum(d, todo, p) ==
    IF todo = {} THEN 0
    ELSE LET k == CHOOSE x \in todo : TRUE
         IN  Get(d[k], p, 0) + ProjectSum(d, todo \ {k}, p)

\* the sum of all of a two-level dict's values
TotalOf(d) == SumAllMinutes(d, DOMAIN d)

\* a bucket dict holds, in all and per project, the minutes dict's sums divided by 60
Conserves(bucketField) ==
    LET minutes == ValueOf(_minutes_per_day_by_project)
        buckets == ValueOf(bucketField)
    IN  /\ TotalOf(buckets) = DivBy60(TotalOf(minutes))
        /\ \A p \in LoggedProjects :
               ProjectSum(buckets, DOMAIN buckets, p) = DivBy60(ProjectSum(minutes, DOMAIN minutes, p))

BiweeklyKey(date) ==
    get_payperiod_key(date, "biweekly", get_payperiod_type_and_start(payperiod_config)[2])

\* C2: the biweekly pay-period key floors from the anchor.  The key k under which a
\* logged date d is bucketed satisfies k <= d < k + 14 with k - anchor_start a multiple
\* of 14, also for d before the anchor; key(d) = key(d + 13) exactly when d is the first
\* day of its window, all dates of the window k .. k + 13 share the key k, and
\* key(d) # key(d + 14).
C2_BiweeklyFloor ==
    ~IsNone(_pay_period_hours_by_project) =>
        \A d \in LoggedDates :
            LET anchor == get_payperiod_type_and_start(payperiod_config)[2]
            IN  \E k \in DOMAIN ValueOf(_pay_period_hours_by_project) :
                    /\ k = BiweeklyKey(d)
                    /\ k <= d /\ d < k + 14
                    /\ (k - anchor) % 14 = 0
                    /\ (BiweeklyKey(d + 13) = k) <=> (d = k)
                    /\ \A e \in k..(k + 13) : BiweeklyKey(e) = k
                    /\ BiweeklyKey(d + 14) # k

\* the pay-period dict is computed for a date logged before the anchor, in the middle
\* of its window
C2_Witness ==
    /\ ~IsNone(_pay_period_hours_by_project)
    /\ \E d \in LoggedDates :
           /\ d < get_payperiod_type_and_start(payperiod_config)[2]
           /\ BiweeklyKey(d) \in DOMAIN ValueOf(_pay_period_hours_by_project)
           /\ BiweeklyKey(d) < d

\* C3: the week key of every date is (ISO-8601 week-year, ISO-8601 week number): once
\* weekly_hours_by_project is computed, every logged date's hours sit under the key
\* isocalendar gives it, so that 30/12/2024 and 01/01/2025 both sit under (2025, 1).
C3_IsoWeekKey ==
    ~IsNone(_weekly_hours_by_project) =>
        \A d \in LoggedDates :
            /\ WeekKey(d) = isocalendar(d)
            /\ isocalendar(d) \in DOMAIN ValueOf(_weekly_hours_by_project)

\* the logged dates whose minutes are accumulated under one weekly key
DatesUnder(key) == {d \in DOMAIN ValueOf(_minutes_per_day_by_project) : WeekKey(d) = key}

\* C10: every weekly bucket covers a single calendar week: two logged dates whose
\* minutes are accumulated under the same key of weekly_hours_by_project are fewer than
\* 7 days apart.
C10_BucketIsOneWeek ==
    ~IsNone(_weekly_hours_by_project) =>
        \A key \in DOMAIN ValueOf(_weekly_hours_by_project) :
            \A d, e \in DatesUnder(key) : d - e < 7

\* the first logged day
FirstLoggedDay == CHOOSE d \in LoggedDates : \A e \in LoggedDates : d <= e

\* the days from the first logged day to today that are expected working days
ExpectedDays ==
    {d \in FirstLoggedDay..today :
        /\ weekday(d) \in 0..4
        /\ ~("holiday_region" \in DOMAIN config /\ CountryHolidays(config.holiday_region, d))
        /\ \A i \in 1..Len(vacation_config) :
               d < strptime(vacation_config[i].start) \/ d > strptime(vacation_config[i].end)}

\* hours_per_week / 5
HoursPerDay == Get(config, "hours_per_week", DefaultHoursPerWeek) \div 5

\* the sum of the logged durations, in minutes
RECURSIVE LoggedMinutes(_)
LoggedMinutes(i) == IF i > Len(logs) THEN 0 ELSE DurationOf(logs[i]) + LoggedMinutes(i + 1)

\* the expected hours a computed flex_time rests on: logged hours less the balance
ExpectedUsed == DivBy60(LoggedMinutes(1)) - ValueOf(_flex_time)

C5_FlexReconciler ==
    ~IsNone(_flex_time) =>
        /\ logs = <<>> => ValueOf(_flex_time) = 0
        /\ logs # <<>> =>
               ValueOf(_flex_time) =
                   DivBy60(LoggedMinutes(1))
                   - ExpectedHours(ComputeMinutes(logs), config, vacation_config, today)
        /\ (/\ LoggedMinutes(1) = 40 * 60
            /\ logs # <<>>
            /\ HoursPerDay * Cardinality(ExpectedDays) = DefaultHoursPerWeek)
               => 2 * ValueOf(_flex_time) = 5 * UnitsPerHour

\* 40 hours are logged against 37.5 expected hours and flex_time is +2.5 hours
C5_Witness ==
    /\ ~IsNone(_flex_time)
    /\ LoggedMinutes(1) = 40 * 60
    /\ ExpectedUsed = DefaultHoursPerWeek
    /\ 2 * ValueOf(_flex_time) = 5 * UnitsPerHour

\* the configured period type is neither monthly nor biweekly
UnsupportedType ==
    get_payperiod_type_and_start(payperiod_config)[1] \notin {"monthly", "biweekly"}

\* C6: a pay-period type that is neither monthly nor biweekly makes the key computation
\* fail with UnsupportedPeriodType: under such a type, with entries logged, no
\* pay-period bucket is ever computed and display_summary ends in that error without a
\* report row.
C6_UnsupportedTypeFails ==
    (UnsupportedType /\ logs # <<>>) =>
        /\ IsNone(_pay_period_hours_by_project)
               \/ DOMAIN ValueOf(_pay_period_hours_by_project) = {}
        /\ result.op = "display_summary" =>
               (result.status = "UnsupportedPeriodType" /\ result.rows = <<>>)

\* the project codes the entries carry that are no key of project_codes
UnknownCodes ==
    {logs[i].project : i \in {j \in 1..Len(logs) : "project" \in DOMAIN logs[j]}}
        \ (DOMAIN project_codes)

CsvBasicReach ==
    IF \E i \in 1..Len(logs) : ~HasTimes(logs[i])
    THEN (CHOOSE i \in 1..Len(logs) : ~HasTimes(logs[i]) /\ \A j \in 1..(i - 1) : HasTimes(logs[j])) - 1
    ELSE Len(logs)

\* the label an entry is reported under when its code is no key of project_codes
FallbackLabel(log) ==
    IF "project" \notin DOMAIN log \/ Get(log, "project", "") = "" THEN "Unassigned"
    ELSE log.project

AllZero(row) == \A label \in (DOMAIN row) \ {"Period"} : row[label] = 0

\* C8: a period without logged data is no error.  display_summary ends ok with its five
\* rows for every input, the empty log list included, and every value of today; each of
\* the rows Today, This Week, Last Week and This Pay Period whose key has no bucket
\* reports 0.00 for every project and for the total.
C8_NoDataIsNoError ==
    result.op = "display_summary" =>
        LET minutes == ValueOf(_minutes_per_day_by_project)
            weekly  == ValueOf(_weekly_hours_by_project)
            pp      == ValueOf(_pay_period_hours_by_project)
            ts      == get_payperiod_type_and_start(payperiod_config)
        IN  /\ result.status = "ok"
            /\ Len(result.rows) = 5
            /\ \A r \in 1..5 :
                   Cardinality(DOMAIN result.rows[r]) = 2 + Cardinality(LoggedProjects)
            /\ today \notin DOMAIN minutes => AllZero(result.rows[1])
            /\ WeekKey(today) \notin DOMAIN weekly => AllZero(result.rows[2])
            /\ WeekKey(today - 7) \notin DOMAIN weekly => AllZero(result.rows[3])
            /\ get_payperiod_key(today, ts[1], ts[2]) \notin DOMAIN pp
                   => AllZero(result.rows[4])
            /\ logs = <<>> => \A r \in 1..5 : result.rows[r].Total = 0

\* display_summary has run with time logged this week but none today and none last week
C8_Witness ==
    /\ result.op = "display_summary"
    /\ logs # <<>>
    /\ today \notin DOMAIN ValueOf(_minutes_per_day_by_project)
    /\ WeekKey(today) \in DOMAIN ValueOf(_weekly_hours_by_project)
    /\ WeekKey(today - 7) \notin DOMAIN ValueOf(_weekly_hours_by_project)
    /\ ~AllZero(result.rows[2])
    /\ AllZero(result.rows[3])

\* every cache field is None or holds what a computation from the logs gives, and the
\* last access returned that
C9_Fresh ==
    LET minutes == ComputeMinutes(logs)
    IN  /\ _minutes_per_day_by_project \in {None, Some(minutes)}
        /\ _weekly_hours_by_project \in {None, Some(ComputeWeekly(minutes))}
        /\ _pay_period_hours_by_project \in
               {None, Some(ComputePayPeriod(minutes, payperiod_config))}
        /\ _flex_time \in
               {None, Some(ComputeFlexTime(minutes, config, vacation_config, today))}
        /\ result.op = "minutes_per_day_by_project" => result.value = Some(minutes)
        /\ result.op = "weekly_hours_by_project" =>
               result.value = Some(ComputeWeekly(minutes))
        /\ result.op = "pay_period_hours_by_project" =>
               result.value = Some(ComputePayPeriod(minutes, payperiod_config))
        /\ result.op = "flex_time" =>
               result.value = Some(ComputeFlexTime(minutes, config, vacation_config, today))

\* a step writes no cache field that holds a value and changes no input
C9_WriteOnce ==
    /\ ~IsNone(_minutes_per_day_by_project) =>
           _minutes_per_day_by_project' = _minutes_per_day_by_project
    /\ ~IsNone(_weekly_hours_by_project) =>
           _weekly_hours_by_project' = _weekly_hours_by_project
    /\ ~IsNone(_pay_period_hours_by_project) =>
           _pay_period_hours_by_project' = _pay_period_hours_by_project
    /\ ~IsNone(_flex_time) => _flex_time' = _flex_time
    /\ inputs' = inputs

\* C9: caching never changes results.  After any sequence of accesses to the four
\* cached properties, in any order and with any repetition, every access returns what
\* an uncached computation from the logs returns, each cache field goes from None to a
\* value at most once and is never written again, and logs and configuration are left
\* unchanged.
C9_CachingIsTransparent == []C9_Fresh /\ [][C9_WriteOnce]_vars

\* all four fields are cached and an access to weekly_hours_by_project has returned
C9_Witness ==
    /\ ~IsNone(_minutes_per_day_by_project)
    /\ ~IsNone(_weekly_hours_by_project)
    /\ ~IsNone(_pay_period_hours_by_project)
    /\ ~IsNone(_flex_time)
    /\ logs # <<>>
    /\ result.op = "weekly_hours_by_project"

====
